---- MODULE Spec2Model ----
(***************************************************************************)
(* A model of the `spin variables` command (src/src/main.rs and            *)
(* src/src/env_provider.rs): one run of VariablesCommand::run, from the    *)
(* inference of the application source to the printed variable listing and *)
(* the preview of the expanded component fields.                           *)
(*                                                                         *)
(* Strings that may hold a template are sequences of tokens: "{{", "}}",   *)
(* " " (whitespace) and pieces of other text.  Names (variable names,      *)
(* component ids, environment variable names) are plain strings.           *)
(*                                                                         *)
(* The calls into the spin_expressions crate (Template::new,               *)
(* ProviderResolver::prepare, PreparedResolver::resolve_template) are      *)
(* modelled by what that crate does at the call sites of main.rs:          *)
(* prepare() asks, for every declared variable, the added providers in     *)
(* order and then the declared default, and returns an error when a        *)
(* variable has no value; resolve_template() looks every key of a template *)
(* up among the prepared values.  The declared names are valid keys, so    *)
(* ProviderResolver::new does not fail.  The --insecure flag is only       *)
(* handed to the registry client and is left out.                          *)
(***************************************************************************)
EXTENDS Naturals, Sequences, FiniteSets, TLC

VARIABLES
    pc,            \* the position of run(): the next step it takes
    from,          \* the --from argument (VariablesCommand.from)
    output,        \* the --output argument (VariablesCommand.output)
    env,           \* the process environment, by environment variable name
    app_source,    \* the result of infer_app_source
    working_dir,   \* the TempDir of AppSource::resolve: "none", "held", "released"
    app_manifest,  \* the AppManifest run() holds
    variables,     \* the Vec<VariableInfo> of run()
    components,    \* the Vec<ComponentInfo> of run()
    resolver,      \* the PreparedResolver of run()
    calls,         \* the calls of expand_template_or_error, in order
    stdout,        \* what run() has printed, in order
    result         \* what run() returned: "running", "ok" or the error

vars == <<pc, from, output, env, app_source, working_dir, app_manifest,
          variables, components, resolver, calls, stdout, result>>

(***************************************************************************)
(* Bounds of the model.                                                    *)
(***************************************************************************)
\* The most variables a manifest of Spec declares.
MaxVars == 2
\* The most components a manifest of SpecExpand declares.
MaxComps == 2
\* The most entries (config values and outbound hosts together) the
\* components of a manifest of SpecExpand hold.
MaxEntries == 3

(***************************************************************************)
(* Option values.                                                          *)
(***************************************************************************)
None == [some |-> FALSE]
Some(v) == [some |-> TRUE, v |-> v]
NotBuilt == [built |-> FALSE]
Built(v) == [built |-> TRUE, v |-> v]

RECURSIVE Flatten(_)
Flatten(ss) == IF ss = <<>> THEN <<>> ELSE Head(ss) \o Flatten(Tail(ss))

(***************************************************************************)
(* Strings and templates.                                                  *)
(***************************************************************************)
Open == "{{"
Close == "}}"
Space == " "

\* str::contains("{{")
ContainsOpen(s) == \E i \in DOMAIN s : s[i] = Open

\* str::split_once(tok): the text before and after the first tok
SplitOnce(s, tok) ==
    IF \E i \in DOMAIN s : s[i] = tok
    THEN LET i == CHOOSE k \in DOMAIN s :
                      s[k] = tok /\ \A j \in 1..(k - 1) : s[j] # tok
         IN  Some(<<SubSeq(s, 1, i - 1), SubSeq(s, i + 1, Len(s))>>)
    ELSE None

RECURSIVE Trim(_)
\* str::trim
Trim(s) ==
    IF s = <<>> THEN s
    ELSE IF Head(s) = Space THEN Trim(Tail(s))
    ELSE IF s[Len(s)] = Space THEN Trim(SubSeq(s, 1, Len(s) - 1))
    ELSE s

\* The names a template or a manifest may use as a key: lower-case
\* identifiers, declared or not.
KeyNames == {"a", "b", "c", "zz"}

\* The upper-case form of each name (str::to_ascii_uppercase).
ToAsciiUppercase(name) ==
    CASE name = "a" -> "A"
      [] name = "b" -> "B"
      [] name = "c" -> "C"
      [] name = "zz" -> "ZZ"

\* format!("SPIN_VARIABLE_{}", key.to_ascii_uppercase())
EnvVarName(name) == "SPIN_VARIABLE_" \o ToAsciiUppercase(name)

RECURSIVE TemplateNew(_)
\* spin_expressions::Template::new: the parts of a template, or an error
\* when a "{{" has no "}}" after it or the text between them is no key.
TemplateNew(s) ==
    IF s = <<>> THEN [ok |-> TRUE, parts |-> <<>>]
    ELSE LET opened == SplitOnce(s, Open) IN
         IF ~opened.some
         THEN [ok |-> TRUE, parts |-> <<[lit |-> s]>>]
         ELSE LET lit == opened.v[1]
                  closed == SplitOnce(opened.v[2], Close)
                  litPart == IF lit = <<>> THEN <<>> ELSE <<[lit |-> lit]>>
              IN  IF ~closed.some THEN [ok |-> FALSE]
                  ELSE LET key == Trim(closed.v[1]) IN
                       IF Len(key) # 1 \/ key[1] \notin KeyNames
                       THEN [ok |-> FALSE]
                       ELSE LET rest == TemplateNew(closed.v[2]) IN
                            IF ~rest.ok THEN [ok |-> FALSE]
                            ELSE [ok |-> TRUE,
                                  parts |-> litPart \o <<[expr |-> key[1]]>>
                                                    \o rest.parts]

\* PreparedResolver::resolve_template: every literal as it is and every
\* key replaced by its prepared value; an error for a key the resolver
\* does not hold.
ResolveTemplate(prepared, parts) ==
    IF \E i \in DOMAIN parts :
           "expr" \in DOMAIN parts[i] /\ parts[i].expr \notin DOMAIN prepared
    THEN [ok |-> FALSE]
    ELSE [ok |-> TRUE,
          v |-> Flatten([i \in DOMAIN parts |->
                    IF "expr" \in DOMAIN parts[i]
                    THEN prepared[parts[i].expr]
                    ELSE parts[i].lit])]

\* expand_template
expand_template(prepared, template) ==
    LET parsed == TemplateNew(template) IN
    IF ~parsed.ok THEN [ok |-> FALSE]
    ELSE ResolveTemplate(prepared, parsed.parts)

EvaluationError == <<"Evalutation error!">>

\* A faulty variant of expand_template_or_error: unwrap_or_default.
expand_template_or_default(prepared, template) ==
    LET r == expand_template(prepared, template) IN
    IF r.ok THEN r.v ELSE <<>>

\* expand_template_or_error
expand_template_or_error(prepared, template) ==
    LET r == expand_template(prepared, template) IN
    IF r.ok THEN r.v ELSE EvaluationError

(***************************************************************************)
(* The variable list.                                                      *)
(***************************************************************************)
\* variables_from_toml: the declared fields as they are
variables_from_toml(manifest) ==
    [i \in DOMAIN manifest.variables |->
        [name |-> manifest.variables[i].name,
         default_value |-> manifest.variables[i].default,
         required |-> manifest.variables[i].required,
         secret |-> manifest.variables[i].secret]]

\* A faulty variant of variables_from_registry_app: required is never set.
variables_from_registry_app_optional(locked_app) ==
    [i \in DOMAIN locked_app.variables |->
        [name |-> locked_app.variables[i].name,
         default_value |-> locked_app.variables[i].default,
         required |-> FALSE,
         secret |-> locked_app.variables[i].secret]]

\* variables_from_registry_app: required is "the default is absent"
variables_from_registry_app(locked_app) ==
    [i \in DOMAIN locked_app.variables |->
        [name |-> locked_app.variables[i].name,
         default_value |-> locked_app.variables[i].default,
         required |-> ~locked_app.variables[i].default.some,
         secret |-> locked_app.variables[i].secret]]

\* AppManifest::variables
ManifestVariables(manifest) ==
    IF manifest.kind = "User" THEN variables_from_toml(manifest)
    ELSE variables_from_registry_app(manifest)

\* format_table: one row per variable
format_table(vs) ==
    [i \in DOMAIN vs |->
        <<vs[i].name,
          IF vs[i].required THEN "Required" ELSE "Optional",
          IF vs[i].default_value.some THEN vs[i].default_value.v ELSE <<>>,
          IF vs[i].secret THEN "Secret" ELSE "">>]

\* format_one_bash
format_one_bash(variable) ==
    IF variable.default_value.some
    THEN <<"# export", EnvVarName(variable.name), variable.default_value.v,
           "# optional">>
    ELSE <<"export", EnvVarName(variable.name), <<"TO-DO">>, "# required">>

\* format_bash: the two header lines, then one line per variable
format_bash(vs) ==
    << <<"# You may source this or reference it">>, <<"">> >>
        \o [i \in DOMAIN vs |-> format_one_bash(vs[i])]

\* VariablesCommand::format_variables
format_variables(fmt, vs) ==
    IF fmt = "Table" THEN [format |-> "Table", rows |-> format_table(vs)]
    ELSE [format |-> "Bash", rows |-> format_bash(vs)]

(***************************************************************************)
(* The component list.                                                     *)
(***************************************************************************)
\* A faulty variant of has_expandables: only the outbound hosts count.
has_expandable_hosts(c) == c.allowed_outbound_hosts # <<>>

\* ComponentInfo::has_expandables
has_expandables(c) ==
    c.allowed_outbound_hosts # <<>> \/ c.variables # <<>>

\* A faulty variant of HostFilter: every host is kept.
HostFilterAll(hosts) == hosts

\* .filter(|h| h.contains("{{")) on the outbound hosts
HostFilter(hosts) == SelectSeq(hosts, ContainsOpen)

\* components_from_toml
components_from_toml(manifest) ==
    LET info(c) == [id |-> c.id,
                    allowed_outbound_hosts |->
                        HostFilter(c.allowed_outbound_hosts),
                    variables |-> c.variables]
    IN  SelectSeq([i \in DOMAIN manifest.components |->
                       info(manifest.components[i])], has_expandables)

\* metadata.get("allowed_outbound_hosts").and_then(as_array)
\*    .unwrap_or_default() ... filter_map(as_str): the strings of the array
MetadataHostStrings(c) ==
    LET meta == c.metadata_hosts
        items == IF meta.some /\ meta.v.type = "array" THEN meta.v.items
                 ELSE <<>>
        isStr(j) == j.type = "string"
        strs == SelectSeq(items, isStr)
    IN  [i \in DOMAIN strs |-> strs[i].s]

\* components_from_registry_app
components_from_registry_app(locked_app) ==
    LET info(c) == [id |-> c.id,
                    allowed_outbound_hosts |->
                        HostFilter(MetadataHostStrings(c)),
                    variables |-> c.config]
    IN  SelectSeq([i \in DOMAIN locked_app.components |->
                       info(locked_app.components[i])], has_expandables)

\* AppManifest::components
ManifestComponents(manifest) ==
    IF manifest.kind = "User" THEN components_from_toml(manifest)
    ELSE components_from_registry_app(manifest)

(***************************************************************************)
(* The resolver.                                                           *)
(***************************************************************************)
\* The values an environment variable may have: not set, set to text that
\* is not valid Unicode, or set to a string.
NotPresent == [kind |-> "NotPresent"]
NotUnicode == [kind |-> "NotUnicode"]
Unicode(v) == [kind |-> "Unicode", v |-> v]

\* EnvProvider::get: std::env::var(name).ok()
EnvProviderGet(e, key) ==
    LET found == e[EnvVarName(key)] IN
    IF found.kind = "Unicode" THEN Some(found.v) ELSE None

\* A faulty variant of resolve_variable: the declared default is asked first.
resolve_variable_default_first(vs, e, i) ==
    IF vs[i].default_value.some THEN vs[i].default_value
    ELSE EnvProviderGet(e, vs[i].name)

\* ProviderResolver::resolve_variable: the providers added to the resolver
\* (here the EnvProvider alone) in order, then the declared default
resolve_variable(vs, e, i) ==
    LET provided == EnvProviderGet(e, vs[i].name) IN
    IF provided.some THEN provided ELSE vs[i].default_value

\* A faulty variant of prepare_resolver: no variables is an error.
prepare_resolver_nonempty(vs, e) ==
    IF vs = <<>> \/ \E i \in DOMAIN vs : ~resolve_variable(vs, e, i).some
    THEN [ok |-> FALSE]
    ELSE [ok |-> TRUE,
          prepared |-> [n \in {vs[i].name : i \in DOMAIN vs} |->
              LET i == CHOOSE k \in DOMAIN vs : vs[k].name = n
              IN  resolve_variable(vs, e, i).v]]

\* prepare_resolver: ProviderResolver::new, add_provider(EnvProvider) and
\* prepare(), which resolves every declared variable and fails when one
\* of them has no value
prepare_resolver(vs, e) ==
    IF \E i \in DOMAIN vs : ~resolve_variable(vs, e, i).some
    THEN [ok |-> FALSE]
    ELSE [ok |-> TRUE,
          prepared |-> [n \in {vs[i].name : i \in DOMAIN vs} |->
              LET i == CHOOSE k \in DOMAIN vs : vs[k].name = n
              IN  resolve_variable(vs, e, i).v]]

(***************************************************************************)
(* The expansion preview.                                                  *)
(***************************************************************************)
\* ComponentInfo::id_or_empty
id_or_empty(c, id_please) == IF id_please THEN c.id ELSE ""

\* A faulty variant of ComponentCalls: the outbound hosts come first.
ComponentCallsHostsFirst(c) ==
    [i \in DOMAIN c.allowed_outbound_hosts |->
        [component |-> c.id, field |-> "host",
         label |-> c.allowed_outbound_hosts[i],
         template |-> c.allowed_outbound_hosts[i]]]
    \o [i \in DOMAIN c.variables |->
        [component |-> c.id, field |-> "variable",
         label |-> c.variables[i][1], template |-> c.variables[i][2]]]

\* The calls of expand_template_or_error that expand_manifest_items makes
\* for one component: its variables, then its outbound hosts.
ComponentCalls(c) ==
    [i \in DOMAIN c.variables |->
        [component |-> c.id, field |-> "variable",
         label |-> c.variables[i][1], template |-> c.variables[i][2]]]
    \o [i \in DOMAIN c.allowed_outbound_hosts |->
        [component |-> c.id, field |-> "host",
         label |-> c.allowed_outbound_hosts[i],
         template |-> c.allowed_outbound_hosts[i]]]

\* The calls of expand_template_or_error of expand_manifest_items, in the
\* order of its loops over the components.
ExpansionCalls(cs) == Flatten([k \in DOMAIN cs |-> ComponentCalls(cs[k])])

\* expand_manifest_items: one table row per call
expand_manifest_items(prepared, cs) ==
    Flatten([k \in DOMAIN cs |->
        LET cc == ComponentCalls(cs[k]) IN
        [i \in DOMAIN cc |->
            <<id_or_empty(cs[k], i = 1), cc[i].label,
              expand_template_or_error(prepared, cc[i].template)>>]])

(***************************************************************************)
(* The inputs of a run.                                                    *)
(***************************************************************************)
\* The names of the declared variables, in the order of their declaration.
DeclNames == <<"a", "b", "c">>
\* The ids of the components, in the order of their declaration.
CompId(i) == CASE i = 1 -> "c1" [] i = 2 -> "c2" [] i = 3 -> "c3"
               [] OTHER -> "c4"
\* The keys of a component's config entries, in order.
ConfigKey(i) == CASE i = 1 -> <<"k1">> [] i = 2 -> <<"k2">>
                  [] i = 3 -> <<"k3">> [] OTHER -> <<"k4">>

\* The --from arguments: none, a registry reference, a path that holds a
\* manifest, a path that does not exist.
OciFrom == Some("ghcr.io/app:v1")
PathFrom == Some("app/spin.toml")
MissingFrom == Some("nowhere")
Froms == {None, OciFrom, PathFrom, MissingFrom}
\* spin_oci::is_probably_oci_reference
IsProbablyOciReference(text) == text = OciFrom.v
\* spin_common::paths::resolve_manifest_file_path
ResolveManifestFilePath(text) ==
    IF text = MissingFrom.v THEN None ELSE Some(text)

\* Raw texts of config values and outbound hosts: a text with no
\* placeholder, a placeholder of the declared variable "a" after a literal,
\* a placeholder of an undeclared key, a "{{" that is never closed.
TLit == <<"example.com">>
TOk == <<"https://", Open, Space, "a", Space, Close>>
TUnknown == <<Open, "zz", Close>>
TUnclosed == <<Open, "a">>
\* The texts of the config values and of the outbound hosts.
ConfigTemplates == {TLit, TOk, TUnknown}
HostTemplates == {TLit, TOk, TUnclosed}

\* The values of a variable's default and of an environment override.
DefaultOf(name) == <<"default-" \o name>>
OverrideOf(name) == <<"override-" \o name>>

\* The environments: each SPIN_VARIABLE_<NAME> of the first n declarable
\* names is not set, not Unicode or set.
Envs(n) ==
    {[name \in {EnvVarName(DeclNames[i]) : i \in 1..n} |->
        LET i == CHOOSE j \in 1..n : EnvVarName(DeclNames[j]) = name IN
        CASE k[i] = "NotPresent" -> NotPresent
          [] k[i] = "NotUnicode" -> NotUnicode
          [] OTHER -> Unicode(OverrideOf(DeclNames[i]))] :
     k \in [1..n -> {"NotPresent", "NotUnicode", "Unicode"}]}

\* The default of the i-th declared variable: present or absent.
DefaultIf(present, i) ==
    IF present THEN Some(DefaultOf(DeclNames[i])) ELSE None

\* The variable declarations of a local manifest, at most n of them.
UserVariableLists(n) ==
    UNION {{[i \in 1..k |-> [name |-> DeclNames[i],
                             default |-> DefaultIf(d[i], i),
                             required |-> r[i], secret |-> x[i]]] :
              d \in [1..k -> BOOLEAN], r \in [1..k -> BOOLEAN],
              x \in [1..k -> BOOLEAN]} :
           k \in 0..n}

\* The variables of a locked application, at most n of them.
LockedVariableLists(n) ==
    UNION {{[i \in 1..k |-> [name |-> DeclNames[i],
                             default |-> DefaultIf(d[i], i),
                             secret |-> x[i]]] :
              d \in [1..k -> BOOLEAN], x \in [1..k -> BOOLEAN]} :
           k \in 0..n}

\* The JSON values of a locked component's "allowed_outbound_hosts" array.
JsonString(t) == [type |-> "string", s |-> t]
JsonNumber == [type |-> "number"]
JsonItems == {JsonString(t) : t \in HostTemplates} \cup {JsonNumber}

RECURSIVE Shapes(_, _)
\* The shapes of a list of n components that hold at most budget entries
\* together: for each component, how many config entries and how many
\* outbound hosts it has.
Shapes(n, budget) ==
    IF n = 0 THEN {<<>>}
    ELSE UNION {LET others == IF i + j > budget THEN {}
                              ELSE Shapes(n - 1, budget - i - j)
                IN  {<<<<i, j>>>> \o rest : rest \in others} :
                i \in 0..budget, j \in 0..budget}

RECURSIVE Sum(_, _)
\* The config entries (x = 1) or outbound hosts (x = 2) of a shape.
Sum(shape, x) ==
    IF shape = <<>> THEN 0 ELSE Head(shape)[x] + Sum(Tail(shape), x)

\* The k-th component of a shape, its config values taken from cfg and its
\* outbound hosts from hosts, in order.
ConfigOf(shape, cfg, k) ==
    [m \in 1..shape[k][1] |->
        <<ConfigKey(m), cfg[Sum(SubSeq(shape, 1, k - 1), 1) + m]>>]
HostsOf(shape, hosts, k) ==
    [m \in 1..shape[k][2] |-> hosts[Sum(SubSeq(shape, 1, k - 1), 2) + m]]

\* The components of a local manifest of a shape.
UserComponents(shape, cfg, hosts) ==
    [k \in DOMAIN shape |->
        [variables |-> ConfigOf(shape, cfg, k),
         allowed_outbound_hosts |-> HostsOf(shape, hosts, k)]]

\* The "allowed_outbound_hosts" metadata of a locked component: an array
\* of JSON values, and for one with no host also no such key, or a value
\* that is no array.
MetadataKinds(shape) ==
    {kinds \in [DOMAIN shape -> {"array", "absent", "object"}] :
        \A k \in DOMAIN shape : shape[k][2] > 0 => kinds[k] = "array"}
MetadataOf(kind, items) ==
    CASE kind = "absent" -> None
      [] kind = "object" -> Some([type |-> "object"])
      [] OTHER -> Some([type |-> "array", items |-> items])

\* The components of a locked application of a shape.
LockedComponents(shape, cfg, hosts, kinds) ==
    [k \in DOMAIN shape |->
        [config |-> ConfigOf(shape, cfg, k),
         metadata_hosts |-> MetadataOf(kinds[k], HostsOf(shape, hosts, k))]]

\* A list of components with the ids c1, c2, ... in order.
WithIds(cs) == [i \in DOMAIN cs |-> [id |-> CompId(i)] @@ cs[i]]

\* The inputs of Spec: every list of at most MaxVars variables; no
\* component, a component with one outbound host, or a component with
\* one config value and one outbound host, each a literal or a
\* placeholder of "a".
PreviewShapes == {<<>>, <<<<0, 1>>>>, <<<<1, 1>>>>}
PreviewTexts == {TLit, TOk}
SpecInputs ==
    [user_variables |-> UserVariableLists(MaxVars),
     locked_variables |-> LockedVariableLists(MaxVars),
     shapes |-> PreviewShapes,
     config_texts |-> PreviewTexts,
     host_texts |-> PreviewTexts,
     host_items |-> {JsonString(t) : t \in PreviewTexts}]

\* The inputs of SpecExpand: the one variable "a" with a default, and
\* every list of at most MaxComps components with at most MaxEntries
\* entries.
ExpandInputs ==
    [user_variables |-> {<<[name |-> "a", default |-> Some(DefaultOf("a")),
                            required |-> FALSE, secret |-> FALSE]>>},
     locked_variables |-> {<<[name |-> "a", default |-> Some(DefaultOf("a")),
                              secret |-> FALSE]>>},
     shapes |-> UNION {Shapes(n, MaxEntries) : n \in 0..MaxComps},
     config_texts |-> ConfigTemplates,
     host_texts |-> HostTemplates,
     host_items |-> JsonItems]

(***************************************************************************)
(* The run.                                                                *)
(***************************************************************************)
\* A faulty variant of DropTempDir: the directory is kept (TempDir::into_path).
KeepTempDir(dir) == dir

\* Drop of the TempDir: of the local working_dir when resolve() returns an
\* error, of the AppManifest::Locked that holds it when run() returns.
DropTempDir(dir) == IF dir = "held" THEN "released" ELSE dir

\* run() returns: Ok(()) or the error of a `?` or of bail!
Return(r) ==
    /\ result' = r
    /\ pc' = "done"
    /\ working_dir' = DropTempDir(working_dir)

InitWith(froms, outputs, envs) ==
    /\ pc = "infer_app_source"
    /\ from \in froms
    /\ output \in outputs
    /\ env \in envs
    /\ app_source = None
    /\ working_dir = "none"
    /\ app_manifest = None
    /\ variables = NotBuilt
    /\ components = NotBuilt
    /\ resolver = NotBuilt
    /\ calls = <<>>
    /\ stdout = <<>>
    /\ result = "running"

Init == InitWith(Froms, {"Table", "Bash"}, Envs(MaxVars))

InitExpand ==
    InitWith(Froms, {"Table"},
             {e \in Envs(1) : e[EnvVarName("a")] = NotPresent})

\* infer_app_source
InferAppSource ==
    /\ pc = "infer_app_source"
    /\ \/ /\ ~from.some
          /\ app_source' = Some([kind |-> "File", at |-> "spin.toml"])
          /\ pc' = "resolve"
          /\ UNCHANGED <<result, working_dir>>
       \/ /\ from.some /\ IsProbablyOciReference(from.v)
          /\ app_source' = Some([kind |-> "Registry", at |-> from.v])
          /\ pc' = "resolve"
          /\ UNCHANGED <<result, working_dir>>
       \/ /\ from.some /\ ~IsProbablyOciReference(from.v)
          /\ ResolveManifestFilePath(from.v).some
          /\ app_source' = Some([kind |-> "File",
                                 at |-> ResolveManifestFilePath(from.v).v])
          /\ pc' = "resolve"
          /\ UNCHANGED <<result, working_dir>>
       \/ /\ from.some /\ ~IsProbablyOciReference(from.v)
          /\ ~ResolveManifestFilePath(from.v).some
          /\ Return("err_infer_app_source")
          /\ UNCHANGED app_source
    /\ UNCHANGED <<from, output, env, app_manifest, variables, components,
                   resolver, calls, stdout>>

\* A faulty variant of ManifestFromFile: a manifest that cannot be read is taken
\* to be an empty one (unwrap_or_default in the place of `?`).
ManifestFromFileOrDefault(in) ==
    /\ pc = "resolve"
    /\ app_source.v.kind = "File"
    /\ \/ /\ \E vs \in in.user_variables :
                app_manifest' = Some([kind |-> "User", variables |-> vs,
                                      components |-> <<>>])
          /\ result' = result
       \/ /\ app_manifest' = Some([kind |-> "User", variables |-> <<>>,
                                   components |-> <<>>])
          /\ result' = "err_manifest_from_file"
    /\ pc' = "variables"
    /\ UNCHANGED <<from, output, env, app_source, working_dir, variables,
                   components, resolver, calls, stdout>>

\* AppSource::resolve of a File: spin_manifest::manifest_from_file reads a
\* manifest of the inputs, or fails
ManifestFromFile(in) ==
    /\ pc = "resolve"
    /\ app_source.v.kind = "File"
    /\ \/ /\ \E vs \in in.user_variables, shape \in in.shapes :
             \E cfg \in [1..Sum(shape, 1) -> in.config_texts],
                hosts \in [1..Sum(shape, 2) -> in.host_texts] :
                app_manifest' = Some([kind |-> "User", variables |-> vs,
                    components |->
                        WithIds(UserComponents(shape, cfg, hosts))])
          /\ pc' = "variables"
          /\ UNCHANGED <<result, working_dir>>
       \/ /\ Return("err_manifest_from_file")
          /\ UNCHANGED app_manifest
    /\ UNCHANGED <<from, output, env, app_source, variables, components,
                   resolver, calls, stdout>>

\* AppSource::resolve of a Registry: TempDir::with_prefix
TempDirWithPrefix ==
    /\ pc = "resolve"
    /\ app_source.v.kind = "Registry"
    /\ \/ /\ working_dir' = "held"
          /\ pc' = "client_new"
          /\ UNCHANGED result
       \/ Return("err_temp_dir")
    /\ UNCHANGED <<from, output, env, app_source, app_manifest, variables,
                   components, resolver, calls, stdout>>

\* AppSource::resolve of a Registry: spin_oci::Client::new
ClientNew ==
    /\ pc = "client_new"
    /\ \/ /\ pc' = "load_app"
          /\ UNCHANGED <<result, working_dir>>
       \/ Return("err_client_new")
    /\ UNCHANGED <<from, output, env, app_source, app_manifest, variables,
                   components, resolver, calls, stdout>>

\* AppSource::resolve of a Registry: OciLoader::load_app pulls a locked
\* application of the inputs into the working directory, or fails
LoadApp(in) ==
    /\ pc = "load_app"
    /\ \/ /\ \E vs \in in.locked_variables, shape \in in.shapes :
             \E cfg \in [1..Sum(shape, 1) -> in.config_texts],
                hosts \in [1..Sum(shape, 2) -> in.host_items],
                kinds \in MetadataKinds(shape) :
                app_manifest' = Some([kind |-> "Locked", variables |-> vs,
                    components |->
                        WithIds(LockedComponents(shape, cfg, hosts, kinds))])
          /\ pc' = "variables"
          /\ UNCHANGED <<result, working_dir>>
       \/ /\ Return("err_load_app")
          /\ UNCHANGED app_manifest
    /\ UNCHANGED <<from, output, env, app_source, variables, components,
                   resolver, calls, stdout>>

\* run(): the variables, their listing, and the components of the preview
ListVariables ==
    /\ pc = "variables"
    /\ LET vs == ManifestVariables(app_manifest.v)
           cs == ManifestComponents(app_manifest.v)
       IN  /\ variables' = Built(vs)
           /\ \/ /\ vs = <<>>
                 /\ stdout' = Append(stdout, [what |-> "no variables"])
                 /\ Return("ok")
                 /\ UNCHANGED components
              \/ /\ vs # <<>>
                 /\ output # "Table"
                 /\ stdout' = Append(stdout, [what |-> "variables",
                                  text |-> format_variables(output, vs)])
                 /\ Return("ok")
                 /\ UNCHANGED components
              \/ /\ vs # <<>>
                 /\ output = "Table"
                 /\ stdout' = Append(stdout, [what |-> "variables",
                                  text |-> format_variables(output, vs)])
                 /\ components' = Built(cs)
                 /\ IF cs = <<>> THEN Return("ok")
                    ELSE /\ pc' = "prepare_resolver"
                         /\ UNCHANGED <<result, working_dir>>
    /\ UNCHANGED <<from, output, env, app_source, app_manifest, resolver,
                   calls>>

\* run(): prepare_resolver, and the bail! when it fails
PrepareResolver ==
    /\ pc = "prepare_resolver"
    /\ LET r == prepare_resolver(variables.v, env) IN
       \/ /\ r.ok
          /\ resolver' = Built(r.prepared)
          /\ pc' = "expand_manifest_items"
          /\ UNCHANGED <<result, working_dir>>
       \/ /\ ~r.ok
          /\ Return("err_prepare_resolver")
          /\ UNCHANGED resolver
    /\ UNCHANGED <<from, output, env, app_source, app_manifest, variables,
                   components, calls, stdout>>

\* run(): expand_manifest_items and the print of its table
ExpandManifestItems ==
    /\ pc = "expand_manifest_items"
    /\ calls' = ExpansionCalls(components.v)
    /\ stdout' = Append(stdout, [what |-> "expansions",
                     rows |-> expand_manifest_items(resolver.v, components.v)])
    /\ Return("ok")
    /\ UNCHANGED <<from, output, env, app_source, app_manifest, variables,
                   components, resolver>>

Next ==
    \/ InferAppSource
    \/ ManifestFromFile(SpecInputs)
    \/ TempDirWithPrefix
    \/ ClientNew
    \/ LoadApp(SpecInputs)
    \/ ListVariables
    \/ PrepareResolver
    \/ ExpandManifestItems

Spec == Init /\ [][Next]_vars

NextExpand ==
    \/ InferAppSource
    \/ ManifestFromFile(ExpandInputs)
    \/ TempDirWithPrefix
    \/ ClientNew
    \/ LoadApp(ExpandInputs)
    \/ ListVariables
    \/ PrepareResolver
    \/ ExpandManifestItems

SpecExpand == InitExpand /\ [][NextExpand]_vars

(***************************************************************************)
(* What the claims speak of.                                               *)
(***************************************************************************)
Done == pc = "done"
AcquisitionErrors ==
    {"err_infer_app_source", "err_manifest_from_file", "err_temp_dir",
     "err_client_new", "err_load_app"}
ExpansionsPrinted ==
    stdout # <<>> /\ stdout[Len(stdout)].what = "expansions"
Rows == stdout[Len(stdout)].rows
Fails(template) == ~expand_template(resolver.v, template).ok

RemoveAt(s, i) == SubSeq(s, 1, i - 1) \o SubSeq(s, i + 1, Len(s))

RECURSIVE WithoutCandidate(_, _)
\* The components without their i-th candidate field, counted over the
\* components in order, the config entries of each before its hosts.
WithoutCandidate(cs, i) ==
    IF cs = <<>> THEN <<>>
    ELSE LET c == Head(cs)
             nv == Len(c.variables)
             nh == Len(c.allowed_outbound_hosts)
         IN  IF i <= nv
             THEN <<[c EXCEPT !.variables = RemoveAt(@, i)]>> \o Tail(cs)
             ELSE IF i <= nv + nh
             THEN <<[c EXCEPT !.allowed_outbound_hosts =
                                  RemoveAt(@, i - nv)]>> \o Tail(cs)
             ELSE <<c>> \o WithoutCandidate(Tail(cs), i - nv - nh)

\* The label and the expanded value of each row.
Results(rows) == [i \in DOMAIN rows |-> <<rows[i][2], rows[i][3]>>]

\* The outbound-host entries of a declared component that are strings.
RawHosts(c) ==
    IF "allowed_outbound_hosts" \in DOMAIN c THEN c.allowed_outbound_hosts
    ELSE IF c.metadata_hosts.some /\ c.metadata_hosts.v.type = "array"
    THEN LET items == c.metadata_hosts.v.items
             str(x) == x.type = "string"
             strs == SelectSeq(items, str)
         IN  [i \in DOMAIN strs |-> strs[i].s]
    ELSE <<>>
\* The config entries of a declared component.
RawConfig(c) == IF "variables" \in DOMAIN c THEN c.variables ELSE c.config
\* The declared component with an id.
Declared(id) ==
    LET cs == app_manifest.v.components
    IN  cs[CHOOSE k \in DOMAIN cs : cs[k].id = id]
Ids(cs) == [k \in DOMAIN cs |-> cs[k].id]

RECURSIVE Offset(_, _)
\* The rows of the components before the k-th.
Offset(cs, k) ==
    IF k <= 1 THEN 0
    ELSE Offset(cs, k - 1) + Len(cs[k - 1].variables)
             + Len(cs[k - 1].allowed_outbound_hosts)

(***************************************************************************)
(* C1: expand_manifest_items expands every candidate field on its own.     *)
(* Once the expansions are printed the run has succeeded, every candidate  *)
(* has a row, a field whose template does not parse or does not resolve    *)
(* shows the error marker, and the label and value of every other row are  *)
(* those the preview gives when the failing field is taken out of the      *)
(* components.                                                             *)
(***************************************************************************)
C1_FieldsIndependent ==
    ExpansionsPrinted =>
        /\ result = "ok"
        /\ Len(Rows) = Len(calls)
        /\ \A i \in DOMAIN calls :
              Fails(calls[i].template) =>
                /\ Rows[i][3] = EvaluationError
                /\ Results(expand_manifest_items(resolver.v,
                               WithoutCandidate(components.v, i)))
                       = RemoveAt(Results(Rows), i)

\* A parse failure in one component and a good expansion in another.
C1_Witness ==
    /\ ExpansionsPrinted
    /\ \E i, j \in DOMAIN calls :
          /\ calls[i].template \in {TUnknown, TUnclosed}
          /\ calls[i].component # calls[j].component
          /\ calls[j].template = TOk
          /\ Rows[j][3] = <<"https://">> \o DefaultOf("a")

(***************************************************************************)
(* C5: an outbound-host entry without "{{" is never expanded and has no    *)
(* row, for a local manifest and for a locked application; every           *)
(* outbound-host entry with "{{" is kept as a candidate.  The hosts of     *)
(* every retained component are the declared string entries that contain   *)
(* "{{", in order; a declared component with such an entry is retained;    *)
(* every call made for a host has a template with "{{".                    *)
(***************************************************************************)
C5_HostsWithoutPlaceholderSkipped ==
    components.built =>
        /\ \A k \in DOMAIN components.v :
              components.v[k].allowed_outbound_hosts
                  = SelectSeq(RawHosts(Declared(components.v[k].id)),
                              ContainsOpen)
        /\ \A d \in DOMAIN app_manifest.v.components :
              (\E h \in DOMAIN RawHosts(app_manifest.v.components[d]) :
                   ContainsOpen(RawHosts(app_manifest.v.components[d])[h]))
              => \E k \in DOMAIN components.v :
                     components.v[k].id = app_manifest.v.components[d].id
        /\ \A i \in DOMAIN calls :
              calls[i].field = "host" =>
                /\ ContainsOpen(calls[i].template)
                /\ ContainsOpen(Rows[i][2])
        /\ ExpansionsPrinted =>
              \A k \in DOMAIN components.v :
                LET host(x) == x.field = "host"
                                 /\ x.component = components.v[k].id
                    made == SelectSeq(calls, host)
                IN  [i \in DOMAIN made |-> made[i].template]
                        = SelectSeq(RawHosts(Declared(components.v[k].id)),
                                    ContainsOpen)

\* A component that declares example.com and a host with a placeholder,
\* after the preview: one host row.
C5_Witness ==
    /\ ExpansionsPrinted
    /\ \E d \in DOMAIN app_manifest.v.components :
          /\ RawHosts(app_manifest.v.components[d]) = <<TLit, TOk>>
          /\ RawConfig(app_manifest.v.components[d]) = <<>>
          /\ \E i \in DOMAIN calls :
                /\ calls[i].component = app_manifest.v.components[d].id
                /\ calls[i].template = TOk
    /\ Len(calls) = 1

(***************************************************************************)
(* C9: the rows of the preview are one per candidate: for each retained    *)
(* component, in the declared order of the components, every config entry  *)
(* in declared order and then every outbound host with "{{" in declared    *)
(* order.                                                                  *)
(***************************************************************************)
C9_RowsInOrder ==
    ExpansionsPrinted =>
        LET cs == components.v
            n == Len(cs)
        IN  /\ Ids(cs) = LET kept(id) == \E k \in DOMAIN cs : cs[k].id = id
                          IN  SelectSeq(Ids(app_manifest.v.components), kept)
            /\ Len(Rows) = Offset(cs, n + 1)
            /\ Len(calls) = Len(Rows)
            /\ \A k \in DOMAIN cs :
                  LET config == RawConfig(Declared(cs[k].id))
                      hosts == SelectSeq(RawHosts(Declared(cs[k].id)),
                                         ContainsOpen)
                      off == Offset(cs, k)
                  IN  /\ \A i \in DOMAIN config :
                            /\ Rows[off + i][2] = config[i][1]
                            /\ calls[off + i].template = config[i][2]
                            /\ calls[off + i].component = cs[k].id
                            /\ Rows[off + i][3] =
                                   expand_template_or_error(resolver.v,
                                                            config[i][2])
                      /\ \A i \in DOMAIN hosts :
                            /\ Rows[off + Len(config) + i][2] = hosts[i]
                            /\ calls[off + Len(config) + i].template = hosts[i]
                            /\ calls[off + Len(config) + i].component = cs[k].id
                            /\ Rows[off + Len(config) + i][3] =
                                   expand_template_or_error(resolver.v,
                                                            hosts[i])
                      /\ Offset(cs, k + 1) = off + Len(config) + Len(hosts)

\* Two components, the first with a config entry and a host.
C9_Witness ==
    /\ ExpansionsPrinted
    /\ Len(components.v) = 2
    /\ Len(components.v[1].variables) = 1
    /\ Len(components.v[1].allowed_outbound_hosts) = 1
    /\ Len(Rows) >= 3

(***************************************************************************)
(* C10 as stated: a retained component has a field, a config value or an   *)
(* outbound host, whose text contains "{{".                                *)
(***************************************************************************)
C10_Original ==
    components.built =>
        \A k \in DOMAIN components.v :
            LET c == Declared(components.v[k].id) IN
            \/ \E i \in DOMAIN RawConfig(c) : ContainsOpen(RawConfig(c)[i][2])
            \/ \E i \in DOMAIN RawHosts(c) : ContainsOpen(RawHosts(c)[i])

(***************************************************************************)
(* C10 amended: a component is retained by components() if and only if it  *)
(* has a config entry, whatever its text, or an outbound-host entry whose  *)
(* text contains "{{"; the retained components keep their declared order.  *)
(***************************************************************************)
C10_RetainedIffConfigOrHost ==
    components.built =>
        LET keep(c) == \/ RawConfig(c) # <<>>
                       \/ \E i \in DOMAIN RawHosts(c) :
                              ContainsOpen(RawHosts(c)[i])
        IN  Ids(components.v) = Ids(SelectSeq(app_manifest.v.components, keep))

\* A retained component with only a literal config value, beside a dropped
\* one with only a literal host.
C10_Witness ==
    /\ components.built
    /\ Len(app_manifest.v.components) = 2
    /\ Len(components.v) = 1
    /\ components.v[1].variables = <<<<ConfigKey(1), TLit>>>>
    /\ components.v[1].allowed_outbound_hosts = <<>>
    /\ \E d \in DOMAIN app_manifest.v.components :
          /\ RawConfig(app_manifest.v.components[d]) = <<>>
          /\ RawHosts(app_manifest.v.components[d]) = <<TLit>>

(***************************************************************************)
(* C2 as stated: for every declared variable the resolver yields the       *)
(* value of SPIN_VARIABLE_<NAME> whenever that environment variable is     *)
(* present, and the declared default when it is not.                       *)
(***************************************************************************)
C2_Original ==
    resolver.built =>
        \A i \in DOMAIN variables.v :
            LET v == variables.v[i]
                override == env[EnvVarName(v.name)]
            IN  /\ override.kind # "NotPresent" =>
                      /\ override.kind = "Unicode"
                      /\ resolver.v[v.name] = override.v
                /\ override.kind = "NotPresent" =>
                      /\ v.default_value.some
                      /\ resolver.v[v.name] = v.default_value.v

(***************************************************************************)
(* C2 amended: for every declared variable the resolver yields the value   *)
(* of SPIN_VARIABLE_<NAME> whenever that environment variable is present   *)
(* and valid Unicode, whatever the declared default, and the declared      *)
(* default when it is absent or not valid Unicode.                         *)
(***************************************************************************)
C2_EnvBeforeDefault ==
    resolver.built =>
        \A i \in DOMAIN variables.v :
            LET v == variables.v[i]
                override == env[EnvVarName(v.name)]
            IN  /\ v.name \in DOMAIN resolver.v
                /\ override.kind = "Unicode" =>
                      resolver.v[v.name] = override.v
                /\ override.kind # "Unicode" =>
                      /\ v.default_value.some
                      /\ resolver.v[v.name] = v.default_value.v

\* A variable with a default and an override: the override is the value.
C2_Witness ==
    /\ resolver.built
    /\ \E i \in DOMAIN variables.v :
          /\ variables.v[i].default_value = Some(DefaultOf(variables.v[i].name))
          /\ env[EnvVarName(variables.v[i].name)]
                 = Unicode(OverrideOf(variables.v[i].name))
          /\ resolver.v[variables.v[i].name] = OverrideOf(variables.v[i].name)

(***************************************************************************)
(* C3: a declared variable with no default and no environment override     *)
(* never aborts a run: the variable is listed as required with an empty    *)
(* default, and when the run ends with the table output and a retained     *)
(* component, the preview is printed, with the error marker for the fields *)
(* that reference the variable and the normal expansion for the others.    *)
(***************************************************************************)
C3_MissingValueNeverAborts ==
    (/\ variables.built
     /\ \E i \in DOMAIN variables.v :
           /\ ~variables.v[i].default_value.some
           /\ variables.v[i].required
           /\ env[EnvVarName(variables.v[i].name)] = NotPresent)
    => /\ result \in {"running", "ok"}
       /\ (Done /\ output = "Table" /\ components.v # <<>>) =>
             /\ ExpansionsPrinted
             /\ \A r \in DOMAIN Rows :
                   (calls[r].template = TOk) <=> (Rows[r][3] = EvaluationError)

(***************************************************************************)
(* C4: when the manifest declares no variable, the variable list is empty, *)
(* the run ends with success and no error, and prepare_resolver on the     *)
(* empty list succeeds with a resolver that holds nothing.                 *)
(***************************************************************************)
C4_NoVariables ==
    (app_manifest.some /\ app_manifest.v.variables = <<>>) =>
        /\ variables.built => variables.v = <<>>
        /\ Done => /\ result = "ok"
                   /\ stdout = <<[what |-> "no variables"]>>
        /\ prepare_resolver(<<>>, env).ok
        /\ DOMAIN prepare_resolver(<<>>, env).prepared = {}

\* The end of a run on a manifest with no variable.
C4_Witness ==
    /\ Done
    /\ app_manifest.some
    /\ app_manifest.v.variables = <<>>
    /\ variables = Built(<<>>)
    /\ result = "ok"

(***************************************************************************)
(* C6: on the registry path the temporary directory is released on every   *)
(* exit path: no run ends with it held, and a run that created it ends     *)
(* with it released, whether the client, the pull or the preparation of    *)
(* the resolver failed or the run succeeded.                               *)
(***************************************************************************)
C6_TempDirReleased ==
    Done =>
        /\ working_dir # "held"
        /\ (app_source.some /\ app_source.v.kind = "Registry"
               /\ result # "err_temp_dir") => working_dir = "released"

\* The run of a pulled application ends with the bail! of run().
C6_Witness ==
    /\ Done
    /\ result = "err_prepare_resolver"
    /\ app_manifest.v.kind = "Locked"
    /\ working_dir = "released"

(***************************************************************************)
(* C7: when the acquisition fails (the locator, the manifest, the          *)
(* temporary directory, the registry client, the pull) the run has ended   *)
(* with that failure and printed nothing, and neither the variable list    *)
(* nor the components nor the resolver were built.                         *)
(***************************************************************************)
C7_AcquisitionFailureIsSilent ==
    result \in AcquisitionErrors =>
        /\ Done
        /\ stdout = <<>>
        /\ ~variables.built
        /\ ~components.built
        /\ ~resolver.built
        /\ calls = <<>>

\* A manifest file that cannot be read.
C7_Witness ==
    /\ Done
    /\ result = "err_manifest_from_file"
    /\ stdout = <<>>

(***************************************************************************)
(* C8: every variable made from a locked application is required exactly   *)
(* when its default is absent, and has the name, the default and the       *)
(* secret flag of the locked application's variable.                       *)
(***************************************************************************)
C8_RequiredIffNoDefault ==
    (variables.built /\ app_manifest.v.kind = "Locked") =>
        /\ Len(variables.v) = Len(app_manifest.v.variables)
        /\ \A i \in DOMAIN variables.v :
              LET locked == app_manifest.v.variables[i] IN
              /\ variables.v[i].name = locked.name
              /\ variables.v[i].required <=> ~locked.default.some
              /\ variables.v[i].default_value = locked.default
              /\ variables.v[i].secret = locked.secret

\* A secret variable of a locked application with no default.
C8_Witness ==
    /\ variables.built
    /\ app_manifest.v.kind = "Locked"
    /\ \E i \in DOMAIN variables.v :
          /\ variables.v[i].required
          /\ variables.v[i].secret
          /\ ~variables.v[i].default_value.some

====
